---- MODULE Spec2Model ----
\* A model of the cocoscrapers plugin-discovery and parallel-execution engine:
\*   modules/Thread_pool.py  the shared pool tp and run_and_wait,
\*                           run_and_wait_multi, run_pipelined, shutdown_executor
\*   __init__.py             sources, enabledCheck, _load_module, pack_sources
\* and of the update of the build wizard (plugin.program.jodisbuildwizard):
\*   resources/lib/wizard.py update_build, _extract_archive,
\*                           _refresh_addon_database
EXTENDS Integers, Sequences, FiniteSets, TLC

\* ---------------------------------------------------------------- bounds
\* The capacity of the shared pool. The code sets 40 (Thread_pool.py:4); the
\* model is parametric in it and is checked at a small capacity.
MaxWorkers == 2
\* The number of tasks the calls of one behaviour may cause in all.
MaxTasks == 3
\* The longest iterable handed to run_pipelined in the single-call specification.
MaxItems == 2

\* The threads outside the pool that call into it, one call each.
Threads == {1, 2}

\* ---------------------------------------------------------- Python values
\* A Python value: its type, its number (int) and its elements (str, list, tuple).
PyNone == [t |-> "NoneType", n |-> 0, e |-> <<>>]
PyInt(k) == [t |-> "int", n |-> k, e |-> <<>>]
PyStr(s) == [t |-> "str", n |-> 0, e |-> s]
PyList(s) == [t |-> "list", n |-> 0, e |-> s]
PyTuple(s) == [t |-> "tuple", n |-> 0, e |-> s]

\* bool(v): None, 0 and the empty str, list and tuple are falsy.
Truthy(v) ==
    CASE v.t = "NoneType" -> FALSE
      [] v.t = "int" -> v.n # 0
      [] OTHER -> Len(v.e) > 0

\* isinstance(v, list)
IsList(v) == v.t = "list"

\* What a call of a task's function does: it raises, or it returns val.
Raise == [raises |-> TRUE, val |-> PyNone]
Return(v) == [raises |-> FALSE, val |-> v]

\* ------------------------------------------------ the callers' functions
\* The functions and items are the callers' inputs. The model fixes one
\* function of each role and lets the calls draw their items from small sets,
\* so that every kind of outcome occurs.
\*   func: item 2 raises, item 3 calls run_and_wait from inside the task, every
\*   other item k returns 10 * k.
FailItem == PyInt(2)
NestItem == PyInt(3)
func(x) == IF x = FailItem THEN Raise ELSE Return(PyInt(10 * x.n))

\*   producer_func: one item for every kind of result.
producer_func(x) ==
    CASE x.n = 1 -> Return(PyList(<<PyInt(10), PyInt(11)>>))
      [] x.n = 2 -> Raise
      [] x.n = 3 -> Return(PyInt(20))
      [] x.n = 4 -> Return(PyNone)
      [] x.n = 5 -> Return(PyList(<<>>))
      [] x.n = 6 -> Return(PyInt(0))
      [] x.n = 7 -> Return(PyTuple(<<PyInt(30), PyInt(31)>>))
      [] OTHER -> Return(PyStr(<<>>))

\*   consumer_func: raises on the value 11, returns None otherwise.
consumer_func(v) == IF v = PyInt(11) THEN Raise ELSE Return(PyNone)

\* ------------------------------------------------------------------ state
VARIABLES
    tasks,      \* the futures of tp: task id -> the work item and its state
    queue,      \* tp's work queue: the ids of the tasks not yet taken by a worker
    calls,      \* call id -> the call of run_and_wait, run_and_wait_multi, run_pipelined
    shutdown,   \* "running", "shutting-down" (shutdown_executor waits), "terminated"
    \* __init__.py and its collaborators
    rootExists, \* the folder sources_cocoscrapers exists
    store,      \* the settings store: key -> what getSetting(key) does
    loadFails,  \* the plugins whose load raises
    debug,      \* debug = getSetting("debug.enabled") == "true"
    logOk,      \* the calls of log_utils return (they raise otherwise)
    src,        \* the call of sources()
    loads,      \* the futures of the executor of sources(), in submission order
    lqueue,     \* that executor's work queue
    packFlag,   \* plugin -> what reading module.source.pack_capable gives
    removed,    \* the plugins whose files were deleted from their folder
    pack,       \* the call of pack_sources()
    \* wizard.py
    home,       \* the files under kodi_home: path -> "user" (as the user has it), "build", "dir"
    upd,        \* the call of update_build()
    \* history, noted only by the specifications whose claims speak of it
    hist        \* held: the tasks still queued when shutdown_executor was called;
                \* fin: load -> the rank of its completion; found: the loads
                \* as_completed found finished at its start

poolVars == <<tasks, queue, calls, shutdown>>
envVars == <<rootExists, store, loadFails, debug, logOk, packFlag, removed>>
discVars == <<envVars, src, loads, lqueue, pack>>
wizVars == <<home, upd>>
vars == <<poolVars, discVars, wizVars, hist>>

TaskIds == DOMAIN tasks
CallIds == DOMAIN calls

\* Identities. The call of thread k is call k; the i-th future a call submits
\* first and its j-th consumer future have the ids below; the call a task makes
\* from inside the pool has the id of the task.
FutId(c, i) == 100 * c + i
ConsId(c, j) == 100 * c + 50 + j
CallOfTask(t) == t \div 100

Futures(c) == [i \in 1..calls[c].nfut |-> FutId(c, i)]
ConsumerFutures(c) == [j \in 1..calls[c].ncons |-> ConsId(c, j)]
Range(s) == {s[i] : i \in DOMAIN s}

Finished(t) == tasks[t].st \in {"done", "failed", "cancelled"}
Running == {t \in TaskIds : tasks[t].st = "running"}

\* A work item and its future. `by` is, for a consumer task, the producer future
\* whose result the value came from (0 for the other tasks). One field records
\* history: `at` is the state of the pool when the task was accepted.
NewTask(stage, arg, by) ==
    [stage |-> stage, arg |-> arg, by |-> by, st |-> "queued", res |-> PyNone,
     at |-> shutdown]

\* The stage of the tasks a call submits first.
FirstStage(op) ==
    CASE op = "run_and_wait" -> "plain"
      [] op = "run_and_wait_multi" -> "map"
      [] OTHER -> "producer"

\* Where a call goes when its first submissions are done: run_and_wait to
\* wait(futures), run_and_wait_multi returns the iterator of tp.map,
\* run_pipelined to as_completed(futures).
AfterSubmit(op) ==
    CASE op = "run_and_wait" -> "wait"
      [] op = "run_and_wait_multi" -> "returned"
      [] OTHER -> "as_completed"

NewCall(op, items) ==
    [op |-> op, items |-> items,
     pc |-> IF items = <<>> THEN AfterSubmit(op) ELSE "submit",
     nfut |-> 0,           \* len(futures)
     ncons |-> 0,          \* len(consumer_futures)
     ac_on |-> FALSE,      \* as_completed has installed its waiter
     ac_first |-> {},      \* the futures as_completed found finished at its start
     ac_done |-> <<>>,     \* the waiter's finished futures, in completion order
     seen |-> <<>>,        \* the futures as_completed has yielded, in order
     fwd |-> <<>>,         \* the values of the current result still to submit
     yielded |-> <<>>,     \* the results the iterator of tp.map has yielded
     overtaken |-> FALSE,  \* a future of the call finished before one submitted earlier
     rejected |-> FALSE,   \* a tp.submit of the call raised (the pool was shut down)
     ret |-> PyNone]       \* the value returned

\* ThreadPoolExecutor(max_workers=...): a queued task starts only on a free worker.
WorkerFree_OffByOne == Cardinality(Running) <= MaxWorkers
WorkerFree == Cardinality(Running) < MaxWorkers

\* Executor.submit after shutdown raises RuntimeError.
Accepting == shutdown = "running"

\* ------------------------------------------------------- the model's budget
\* The values run_pipelined forwards from one producer result (lines 34-39):
\* nothing when the result is falsy, its elements when it is a list, the result
\* itself otherwise.
Forward_NoTruthTest(results) ==
    IF IsList(results) THEN results.e ELSE <<results>>
Forward(results) ==
    IF Truthy(results)
    THEN IF IsList(results) THEN results.e ELSE <<results>>
    ELSE <<>>

RECURSIVE SumSeq(_)
SumSeq(s) == IF s = <<>> THEN 0 ELSE Head(s) + SumSeq(Tail(s))

\* The number of tasks an item of a call can cause.
ItemTasks(op, x) ==
    CASE op = "run_and_wait" -> IF x = NestItem THEN 2 ELSE 1
      [] op = "run_and_wait_multi" -> 1
      [] OTHER -> IF producer_func(x).raises THEN 1
                  ELSE 1 + Len(Forward(producer_func(x).val))
CallTasks(op, items) == SumSeq([i \in DOMAIN items |-> ItemTasks(op, items[i])])
Committed ==
    SumSeq([k \in 1..Cardinality(Threads) |->
              IF k \in CallIds THEN CallTasks(calls[k].op, calls[k].items) ELSE 0])
\* The number of tasks the threads that have not called yet may still cause.
Budget == IF Committed >= MaxTasks THEN 0 ELSE MaxTasks - Committed
RECURSIVE SeqsUpTo(_, _)
\* The sequences over S of length at most n.
SeqsUpTo(S, n) ==
    IF n = 0 THEN {<<>>}
    ELSE LET shorter == SeqsUpTo(S, n - 1)
         IN shorter \cup {Append(s, x) : s \in shorter, x \in S}

\* ---------------------------------------------------------------- actions
\* Thread k calls run_and_wait(func, items), run_and_wait_multi(func, items) or
\* run_pipelined(producer_func, consumer_func, items).
Call(k, op, items) ==
    /\ k \notin CallIds
    /\ calls' = (k :> NewCall(op, items)) @@ calls
    /\ UNCHANGED <<tasks, queue, shutdown>>

\* tp.submit of the call's next item: the loop of run_and_wait, the list
\* comprehensions of Executor.map and of run_pipelined. A submission after
\* shutdown raises out of the call.
Submit(c) ==
    /\ calls[c].pc = "submit"
    /\ IF Accepting
       THEN LET i == calls[c].nfut + 1
            IN /\ tasks' = (FutId(c, i) :> NewTask(FirstStage(calls[c].op), calls[c].items[i], 0))
                             @@ tasks
               /\ queue' = Append(queue, FutId(c, i))
               /\ calls' = [calls EXCEPT ![c].nfut = i,
                                         ![c].pc = IF i = Len(calls[c].items)
                                                   THEN AfterSubmit(calls[c].op)
                                                   ELSE "submit"]
       ELSE /\ calls' = [calls EXCEPT ![c].pc = "raised", ![c].rejected = TRUE]
            /\ UNCHANGED <<tasks, queue>>
    /\ UNCHANGED shutdown

\* A free worker takes the oldest queued task.
Start ==
    /\ queue # <<>>
    /\ WorkerFree
    /\ tasks' = [tasks EXCEPT ![Head(queue)].st = "running"]
    /\ queue' = Tail(queue)
    /\ UNCHANGED <<calls, shutdown>>

\* What the function of task t does with its argument. The lambda of
\* run_and_wait_multi unpacks the argument tuple: func(*args).
Outcome(t) ==
    CASE tasks[t].stage = "producer" -> producer_func(tasks[t].arg)
      [] tasks[t].stage = "consumer" -> consumer_func(tasks[t].arg)
      [] tasks[t].stage = "map" -> func(tasks[t].arg.e[1])
      [] OTHER -> func(tasks[t].arg)

\* The task's function calls run_and_wait itself (a nested submission).
IsNested(t) == tasks[t].stage = "plain" /\ tasks[t].arg = NestItem

NestedCall(t) ==
    /\ tasks[t].st = "running"
    /\ IsNested(t)
    /\ t \notin CallIds
    /\ calls' = (t :> NewCall("run_and_wait", <<PyInt(1)>>)) @@ calls
    /\ UNCHANGED <<tasks, queue, shutdown>>

\* The result of a finished task: a nested task raises what its inner call raised.
ResultOf(t) ==
    IF IsNested(t) /\ calls[t].pc = "raised" THEN Raise ELSE Outcome(t)

\* as_completed's waiter: a future finishing after the waiter was installed is
\* appended to its list, in completion order.
Notify(t) ==
    LET c == CallOfTask(t)
        earlier == {u \in Range(Futures(c)) : u < t /\ ~Finished(u)}
    IN [calls EXCEPT ![c].ac_done = IF tasks[t].stage = "producer" /\ calls[c].ac_on
                                    THEN Append(@, t) ELSE @,
                     ![c].overtaken = @ \/ (tasks[t].stage # "consumer" /\ earlier # {})]

\* The worker finishes task t: the future gets its result or its exception.
Finish(t) ==
    /\ tasks[t].st = "running"
    /\ IsNested(t) => t \in CallIds /\ calls[t].pc \in {"returned", "raised"}
    /\ tasks' = [tasks EXCEPT ![t].st = IF ResultOf(t).raises THEN "failed" ELSE "done",
                              ![t].res = ResultOf(t).val]
    /\ calls' = Notify(t)
    /\ UNCHANGED <<queue, shutdown>>

\* wait(futures) of run_and_wait returns when every future has finished.
Wait_FirstCompleted(c) ==
    /\ calls[c].pc = "wait"
    /\ \E t \in Range(Futures(c)) : Finished(t)
    /\ calls' = [calls EXCEPT ![c].pc = "returned", ![c].ret = PyNone]
    /\ UNCHANGED <<tasks, queue, shutdown>>
Wait(c) ==
    /\ calls[c].pc = "wait"
    /\ \A t \in Range(Futures(c)) : Finished(t)
    /\ calls' = [calls EXCEPT ![c].pc = "returned", ![c].ret = PyNone]
    /\ UNCHANGED <<tasks, queue, shutdown>>

\* for future in as_completed(futures): as_completed starts by taking the futures
\* already finished (a set: it yields them in no particular order) and installs
\* a waiter for the others.
AsCompletedStart(c) ==
    /\ calls[c].pc = "as_completed"
    /\ calls' = [calls EXCEPT ![c].ac_on = TRUE,
                              ![c].ac_first = {t \in Range(Futures(c)) : Finished(t)},
                              ![c].pc = "iter"]
    /\ UNCHANGED <<tasks, queue, shutdown>>

\* The body of the loop for the yielded future t (lines 32-41): future.result()
\* raises what the producer raised, which `except Exception: pass` discards;
\* otherwise the values to forward are those of Forward.
Inspect_NoTry(c, t, first, done) ==
    LET fwd == IF tasks[t].st = "failed" THEN <<>> ELSE Forward(tasks[t].res)
    IN calls' = [calls EXCEPT ![c].ac_first = first,
                              ![c].ac_done = done,
                              ![c].seen = Append(@, t),
                              ![c].fwd = fwd,
                              ![c].pc = IF tasks[t].st = "failed" THEN "raised"
                                        ELSE IF fwd = <<>> THEN "iter" ELSE "consume"]
Inspect(c, t, first, done) ==
    LET fwd == IF tasks[t].st = "failed" THEN <<>> ELSE Forward(tasks[t].res)
    IN calls' = [calls EXCEPT ![c].ac_first = first,
                              ![c].ac_done = done,
                              ![c].seen = Append(@, t),
                              ![c].fwd = fwd,
                              ![c].pc = IF fwd = <<>> THEN "iter" ELSE "consume"]

\* as_completed yields the next finished future, those found at its start
\* first, then the waiter's in completion order; it blocks while none has
\* finished and ends the loop when every future has been yielded.
AsCompletedNext_NewestFirst(c) ==
    /\ calls[c].pc = "iter"
    /\ \/ \E t \in calls[c].ac_first :
             Inspect(c, t, calls[c].ac_first \ {t}, calls[c].ac_done)
       \/ /\ calls[c].ac_first = {}
          /\ calls[c].ac_done # <<>>
          /\ Inspect(c, calls[c].ac_done[Len(calls[c].ac_done)], {},
                     SubSeq(calls[c].ac_done, 1, Len(calls[c].ac_done) - 1))
       \/ /\ calls[c].ac_first = {}
          /\ calls[c].ac_done = <<>>
          /\ Len(calls[c].seen) = calls[c].nfut
          /\ calls' = [calls EXCEPT ![c].pc = "join"]
    /\ UNCHANGED <<tasks, queue, shutdown>>
AsCompletedNext(c) ==
    /\ calls[c].pc = "iter"
    /\ \/ \E t \in calls[c].ac_first :
             Inspect(c, t, calls[c].ac_first \ {t}, calls[c].ac_done)
       \/ /\ calls[c].ac_first = {}
          /\ calls[c].ac_done # <<>>
          /\ Inspect(c, Head(calls[c].ac_done), {}, Tail(calls[c].ac_done))
       \/ /\ calls[c].ac_first = {}
          /\ calls[c].ac_done = <<>>
          /\ Len(calls[c].seen) = calls[c].nfut
          /\ calls' = [calls EXCEPT ![c].pc = "join"]
    /\ UNCHANGED <<tasks, queue, shutdown>>

\* consumer_futures.append(tp.submit(consumer_func, result)) for the next value
\* of the current result (lines 36-39). The RuntimeError of a submission after
\* shutdown is raised inside the try and discarded with the rest of the result.
SubmitConsumer_DropRest(c) ==
    /\ calls[c].pc = "consume"
    /\ IF Accepting
       THEN LET j == calls[c].ncons + 1
            IN /\ tasks' = (ConsId(c, j) :>
                              NewTask("consumer", Head(calls[c].fwd), calls[c].seen[Len(calls[c].seen)]))
                             @@ tasks
               /\ queue' = Append(queue, ConsId(c, j))
               /\ calls' = [calls EXCEPT ![c].ncons = j, ![c].fwd = <<>>, ![c].pc = "iter"]
       ELSE /\ calls' = [calls EXCEPT ![c].fwd = <<>>, ![c].pc = "iter",
                                         ![c].rejected = TRUE]
            /\ UNCHANGED <<tasks, queue>>
    /\ UNCHANGED shutdown
SubmitConsumer(c) ==
    /\ calls[c].pc = "consume"
    /\ IF Accepting
       THEN LET j == calls[c].ncons + 1
            IN /\ tasks' = (ConsId(c, j) :> NewTask("consumer", Head(calls[c].fwd), calls[c].seen[Len(calls[c].seen)]))
                             @@ tasks
               /\ queue' = Append(queue, ConsId(c, j))
               /\ calls' = [calls EXCEPT ![c].ncons = j,
                                         ![c].fwd = Tail(@),
                                         ![c].pc = IF Tail(calls[c].fwd) = <<>>
                                                   THEN "iter" ELSE "consume"]
       ELSE /\ calls' = [calls EXCEPT ![c].fwd = <<>>, ![c].pc = "iter",
                                         ![c].rejected = TRUE]
            /\ UNCHANGED <<tasks, queue>>
    /\ UNCHANGED shutdown

\* if consumer_futures: wait(consumer_futures) (lines 42-43), then the return.
\* wait() does not look at the results: a consumer that raised is only finished.
WaitConsumers_NoWait(c) ==
    /\ calls[c].pc = "join"
    /\ calls' = [calls EXCEPT ![c].pc = "returned", ![c].ret = PyNone]
    /\ UNCHANGED <<tasks, queue, shutdown>>
WaitConsumers_Reraises(c) ==
    /\ calls[c].pc = "join"
    /\ \A t \in Range(ConsumerFutures(c)) : Finished(t)
    /\ calls' = [calls EXCEPT ![c].pc = IF \E t \in Range(ConsumerFutures(c)) :
                                               tasks[t].st = "failed"
                                          THEN "raised" ELSE "returned",
                              ![c].ret = PyNone]
    /\ UNCHANGED <<tasks, queue, shutdown>>
WaitConsumers(c) ==
    /\ calls[c].pc = "join"
    /\ \A t \in Range(ConsumerFutures(c)) : Finished(t)
    /\ calls' = [calls EXCEPT ![c].pc = "returned", ![c].ret = PyNone]
    /\ UNCHANGED <<tasks, queue, shutdown>>

\* The caller takes the next result from the iterator run_and_wait_multi
\* returned (Executor.map's result_iterator): the result of the next future in
\* submission order, waiting for it. When that future raised, the exception is
\* raised to the caller and the iterator cancels the futures still queued.
MultiNext_Reversed(c) ==
    /\ calls[c].op = "run_and_wait_multi"
    /\ calls[c].pc = "returned"
    /\ Len(calls[c].yielded) < calls[c].nfut
    /\ LET k == Len(calls[c].yielded) + 1
           t == FutId(c, calls[c].nfut + 1 - k)
       IN /\ Finished(t)
          /\ calls' = [calls EXCEPT ![c].yielded = Append(@, tasks[t].res),
                                    ![c].pc = IF tasks[t].st # "done" THEN "iter_raised"
                                              ELSE IF k = calls[c].nfut
                                              THEN "exhausted" ELSE "returned"]
          /\ UNCHANGED <<tasks, queue>>
    /\ UNCHANGED shutdown
MultiNext_SkipsFailure(c) ==
    /\ calls[c].op = "run_and_wait_multi"
    /\ calls[c].pc = "returned"
    /\ Len(calls[c].yielded) < calls[c].nfut
    /\ LET k == Len(calls[c].yielded) + 1
           t == FutId(c, k)
       IN /\ Finished(t)
          /\ calls' = [calls EXCEPT ![c].yielded = Append(@, tasks[t].res),
                                    ![c].pc = IF k = calls[c].nfut
                                              THEN "exhausted" ELSE "returned"]
          /\ UNCHANGED <<tasks, queue>>
    /\ UNCHANGED shutdown
MultiNext(c) ==
    /\ calls[c].op = "run_and_wait_multi"
    /\ calls[c].pc = "returned"
    /\ Len(calls[c].yielded) < calls[c].nfut
    /\ LET k == Len(calls[c].yielded) + 1
           t == FutId(c, k)
           rest == {FutId(c, i) : i \in (k + 1)..calls[c].nfut}
       IN /\ Finished(t)
          /\ IF tasks[t].st = "done"
             THEN /\ calls' = [calls EXCEPT ![c].yielded = Append(@, tasks[t].res),
                                            ![c].pc = IF k = calls[c].nfut
                                                      THEN "exhausted" ELSE "returned"]
                  /\ UNCHANGED <<tasks, queue>>
             ELSE /\ calls' = [calls EXCEPT ![c].pc = "iter_raised"]
                  /\ tasks' = [u \in TaskIds |->
                                 IF u \in rest /\ tasks[u].st = "queued"
                                 THEN [tasks[u] EXCEPT !.st = "cancelled"]
                                 ELSE tasks[u]]
                  /\ queue' = SelectSeq(queue, LAMBDA u : u \notin rest)
    /\ UNCHANGED shutdown

\* shutdown_executor: tp.shutdown(wait=True) stops the pool accepting work and
\* waits for the workers, which first run what is queued.
ShutdownExecutor ==
    /\ shutdown = "running"
    /\ shutdown' = "shutting-down"
    /\ UNCHANGED <<tasks, queue, calls>>

\* The same step with the tasks noted that were queued when it was taken.
ShutdownExecutorNoted ==
    /\ ShutdownExecutor
    /\ hist' = [hist EXCEPT !.held = {t \in TaskIds : tasks[t].st = "queued"}]

ShutdownReturn_NoWait ==
    /\ shutdown = "shutting-down"
    /\ shutdown' = "terminated"
    /\ UNCHANGED <<tasks, queue, calls>>
ShutdownReturn ==
    /\ shutdown = "shutting-down"
    /\ queue = <<>>
    /\ Running = {}
    /\ shutdown' = "terminated"
    /\ UNCHANGED <<tasks, queue, calls>>

\* ------------------------------------------------------------- discovery
\* The capacity of the executor of sources(). The code sets 10 (__init__.py:48);
\* the model is checked at a small capacity.
LoadWorkers == 2

\* The plugin tree: the folders of sources_cocoscrapers and what walk_packages
\* yields for each, in its order: the modules installed there that have not
\* been removed. A folder that does not exist yields nothing.
SourceSubFolders == <<"a", "b">>
InstalledEntries(folder) ==
    CASE folder = "a" -> <<"a1", "a2", "apkg">>
      [] folder = "b" -> <<"b1">>
      [] OTHER -> <<>>
FolderEntries(folder) ==
    SelectSeq(InstalledEntries(folder), LAMBDA n : n \notin removed)
is_pkg(name) == name = "apkg"
LeafPlugins == {"a1", "a2", "b1"}

\* What a collaborator's call does with a bool result.
BoolRaise == [raises |-> TRUE, val |-> FALSE]
BoolReturn(b) == [raises |-> FALSE, val |-> b]
\* What getSetting does: it raises, or it returns the string val.
StrRaise == [raises |-> TRUE, val |-> ""]
StrReturn(v) == [raises |-> FALSE, val |-> v]

\* The key enabledCheck reads: "provider." + module_name
ProviderKey(module_name) == <<"provider.", module_name>>
getSetting(key) == store[key]

\* log_utils.error() and log_utils.log(): return, or raise.
LogRaises == ~logOk

\* enabledCheck (lines 64-74): True iff the setting reads "true"; when the
\* lookup raises, log_utils.error() is called and True is returned.
enabledCheck_FailClosed(module_name) ==
    LET r == getSetting(ProviderKey(module_name))
    IN IF ~r.raises
       THEN BoolReturn(r.val = "true")
       ELSE IF LogRaises THEN BoolRaise ELSE BoolReturn(FALSE)
enabledCheck_AnyCase(module_name) ==
    LET r == getSetting(ProviderKey(module_name))
    IN IF ~r.raises
       THEN BoolReturn(r.val \in {"true", "True"})
       ELSE IF LogRaises THEN BoolRaise ELSE BoolReturn(TRUE)
enabledCheck(module_name) ==
    LET r == getSetting(ProviderKey(module_name))
    IN IF ~r.raises
       THEN BoolReturn(r.val = "true")
       ELSE IF LogRaises THEN BoolRaise ELSE BoolReturn(TRUE)

\* The capability object of a loaded plugin, module.source.
Source(module_name) == <<"source", module_name>>

\* _load_module (lines 13-25): the pair (module_name, module.source), or None
\* when the load raises, after a log call when debug is set.
LoadModule_NoTry(module_name) ==
    IF module_name \notin loadFails
    THEN Return(PyTuple(<<module_name, Source(module_name)>>))
    ELSE Raise
LoadModule(module_name) ==
    IF module_name \notin loadFails
    THEN Return(PyTuple(<<module_name, Source(module_name)>>))
    ELSE IF debug /\ LogRaises THEN Raise ELSE Return(PyNone)

RECURSIVE Concat(_)
Concat(ss) == IF ss = <<>> THEN <<>> ELSE Head(ss) \o Concat(Tail(ss))

\* The names walk_packages yields over the folders, in order (lines 38-41).
Walk(folders) == Concat([i \in DOMAIN folders |-> FolderEntries(folders[i])])

RECURSIVE Collect(_, _)
\* The loop of lines 38-45 over the walked names: packages are skipped, a leaf
\* is kept when ret_all or enabledCheck(name). The result: whether enabledCheck
\* raised out of the loop, modules_to_load, and the answers enabledCheck gave.
Collect(names, ret_all) ==
    IF names = <<>>
    THEN [raises |-> FALSE, mods |-> <<>>, checked |-> <<>>]
    ELSE LET name == Head(names)
             rest == Collect(Tail(names), ret_all)
         IN IF is_pkg(name) THEN rest
            ELSE IF ret_all
            THEN [rest EXCEPT !.mods = <<name>> \o @]
            ELSE LET chk == enabledCheck(name)
                     here == <<[name |-> name, out |-> chk]>>
                 IN IF chk.raises
                    THEN [raises |-> TRUE, mods |-> <<>>, checked |-> here]
                    ELSE [raises |-> rest.raises,
                          mods |-> IF rest.raises THEN <<>>
                                   ELSE IF chk.val THEN <<name>> \o rest.mods
                                   ELSE rest.mods,
                          checked |-> here \o rest.checked]

\* Lines 30-45: the folders to search are specified_folders when it is truthy,
\* the subfolders of the root otherwise; a missing root raises (IndexError).
Enumerate_IgnoresRetAll(specified_folders, ret_all) ==
    IF ~rootExists
    THEN [raises |-> TRUE, mods |-> <<>>, checked |-> <<>>]
    ELSE Collect(Walk(IF Truthy(specified_folders)
                      THEN specified_folders.e ELSE SourceSubFolders),
                 FALSE)
Enumerate_IgnoresCheck(specified_folders, ret_all) ==
    IF ~rootExists
    THEN [raises |-> TRUE, mods |-> <<>>, checked |-> <<>>]
    ELSE Collect(Walk(IF Truthy(specified_folders)
                      THEN specified_folders.e ELSE SourceSubFolders),
                 TRUE)
Enumerate(specified_folders, ret_all) ==
    IF ~rootExists
    THEN [raises |-> TRUE, mods |-> <<>>, checked |-> <<>>]
    ELSE Collect(Walk(IF Truthy(specified_folders)
                      THEN specified_folders.e ELSE SourceSubFolders),
                 ret_all)

IdleSources ==
    [pc |-> "idle", specified_folders |-> PyNone, ret_all |-> FALSE,
     modules_to_load |-> <<>>, checked |-> <<>>,
     exc |-> FALSE,        \* an exception is propagating
     ac_on |-> FALSE, ac_first |-> {}, ac_done |-> <<>>, seen |-> <<>>,
     sourceDict |-> <<>>,
     logged |-> FALSE,     \* the handler's log_utils.error() was called and returned
     cycle |-> 1,          \* the number of this call of sources()
     prev |-> {},          \* the names the call before this one returned
     ret |-> <<>>]

LoadIds == DOMAIN loads
LoadFinished(i) == loads[i].st \in {"done", "failed"}
LoadRunning == {i \in LoadIds : loads[i].st = "running"}

\* ThreadPoolExecutor(max_workers=10)
LoadWorkerFree_OffByOne == Cardinality(LoadRunning) <= LoadWorkers
LoadWorkerFree == Cardinality(LoadRunning) < LoadWorkers

\* sources(specified_folders, ret_all) is called and runs lines 30-45. It reads
\* the settings and writes none.
SourcesCall_SavesDefaults(specified_folders, ret_all) ==
    /\ src.pc = "idle"
    /\ LET en == Enumerate(specified_folders, ret_all)
       IN src' = [src EXCEPT !.specified_folders = specified_folders,
                             !.ret_all = ret_all,
                             !.modules_to_load = en.mods,
                             !.checked = en.checked,
                             !.exc = en.raises,
                             !.pc = IF en.raises THEN "except"
                                    ELSE IF en.mods = <<>> THEN "as_completed"
                                    ELSE "submit"]
    /\ store' = [k \in DOMAIN store |-> StrReturn("true")]
    /\ UNCHANGED <<rootExists, loadFails, debug, logOk, packFlag, removed, loads, lqueue>>
SourcesCall(specified_folders, ret_all) ==
    /\ src.pc = "idle"
    /\ LET en == Enumerate(specified_folders, ret_all)
       IN src' = [src EXCEPT !.specified_folders = specified_folders,
                             !.ret_all = ret_all,
                             !.modules_to_load = en.mods,
                             !.checked = en.checked,
                             !.exc = en.raises,
                             !.pc = IF en.raises THEN "except"
                                    ELSE IF en.mods = <<>> THEN "as_completed"
                                    ELSE "submit"]
    /\ UNCHANGED <<envVars, loads, lqueue>>

\* executor.submit(_load_module, loader, name) for the next module (lines 49-50).
LoadSubmit ==
    /\ src.pc = "submit"
    /\ LET i == Len(loads) + 1
       IN /\ loads' = Append(loads, [name |-> src.modules_to_load[i],
                                     st |-> "queued", res |-> PyNone])
          /\ lqueue' = Append(lqueue, i)
          /\ src' = [src EXCEPT !.pc = IF i = Len(src.modules_to_load)
                                       THEN "as_completed" ELSE "submit"]
    /\ UNCHANGED envVars

\* A free worker of the executor takes the oldest queued load.
LoadStart ==
    /\ lqueue # <<>>
    /\ LoadWorkerFree
    /\ loads' = [loads EXCEPT ![Head(lqueue)].st = "running"]
    /\ lqueue' = Tail(lqueue)
    /\ UNCHANGED <<envVars, src>>

\* The worker finishes _load_module; as_completed's waiter, once installed,
\* lists the future.
LoadFinish(i) ==
    /\ loads[i].st = "running"
    /\ LET out == LoadModule(loads[i].name)
       IN loads' = [loads EXCEPT ![i].st = IF out.raises THEN "failed" ELSE "done",
                                 ![i].res = out.val]
    /\ src' = [src EXCEPT !.ac_done = IF src.ac_on THEN Append(@, i) ELSE @]
    /\ UNCHANGED <<envVars, lqueue>>

\* for future in as_completed(futures) (line 51): the futures already finished
\* are taken first, in no particular order.
LoadAsCompletedStart ==
    /\ src.pc = "as_completed"
    /\ src' = [src EXCEPT !.ac_on = TRUE,
                          !.ac_first = {i \in LoadIds : LoadFinished(i)},
                          !.pc = "iter"]
    /\ UNCHANGED <<envVars, loads, lqueue>>

\* The same steps with their history noted: the rank of the completion of
\* load i, and the loads that as_completed found finished.
LoadFinishNoted(i) ==
    /\ LoadFinish(i)
    /\ hist' = [hist EXCEPT !.fin = (i :> Cardinality({j \in LoadIds : LoadFinished(j)}) + 1) @@ @]
LoadAsCompletedStartNoted ==
    /\ LoadAsCompletedStart
    /\ hist' = [hist EXCEPT !.found = {i \in LoadIds : LoadFinished(i)}]

\* Lines 52-54 for the yielded future i: future.result() raises what
\* _load_module raised, out of the loop; a truthy result is appended.
Collected_Prepends(i, first, done) ==
    src' = [src EXCEPT !.ac_first = first,
                       !.ac_done = done,
                       !.seen = Append(@, i),
                       !.exc = loads[i].st = "failed",
                       !.sourceDict = IF loads[i].st = "done" /\ Truthy(loads[i].res)
                                      THEN <<loads[i].res>> \o @ ELSE @,
                       !.pc = IF loads[i].st = "failed" THEN "exit" ELSE "iter"]
Collected(i, first, done) ==
    src' = [src EXCEPT !.ac_first = first,
                       !.ac_done = done,
                       !.seen = Append(@, i),
                       !.exc = loads[i].st = "failed",
                       !.sourceDict = IF loads[i].st = "done" /\ Truthy(loads[i].res)
                                      THEN Append(@, loads[i].res) ELSE @,
                       !.pc = IF loads[i].st = "failed" THEN "exit" ELSE "iter"]

LoadAsCompletedNext ==
    /\ src.pc = "iter"
    /\ \/ \E i \in src.ac_first : Collected(i, src.ac_first \ {i}, src.ac_done)
       \/ /\ src.ac_first = {}
          /\ src.ac_done # <<>>
          /\ Collected(Head(src.ac_done), {}, Tail(src.ac_done))
       \/ /\ src.ac_first = {}
          /\ src.ac_done = <<>>
          /\ Len(src.seen) = Len(loads)
          /\ src' = [src EXCEPT !.pc = "exit"]
    /\ UNCHANGED <<envVars, loads, lqueue>>

\* The end of the with block: executor.shutdown(wait=True) waits for every load;
\* then return sourceDict (line 56), or the handler when an exception propagates.
WithExit ==
    /\ src.pc = "exit"
    /\ \A i \in LoadIds : LoadFinished(i)
    /\ src' = [src EXCEPT !.pc = IF src.exc THEN "except" ELSE "returned",
                          !.ret = IF src.exc THEN <<>> ELSE src.sourceDict]
    /\ UNCHANGED <<envVars, loads, lqueue>>

\* except Exception: log_utils.error(); return [] (lines 57-61). The exception
\* of the log call leaves sources().
Except_NoHandler ==
    /\ src.pc = "except"
    /\ src' = [src EXCEPT !.pc = "raised", !.ret = <<>>]
    /\ UNCHANGED <<envVars, loads, lqueue>>
Except ==
    /\ src.pc = "except"
    /\ src' = [src EXCEPT !.pc = IF LogRaises THEN "raised" ELSE "returned",
                          !.logged = ~LogRaises,
                          !.ret = <<>>]
    /\ UNCHANGED <<envVars, loads, lqueue>>

\* ---------------------------------------------------------- pack_sources
\* Reading module.source.pack_capable: True, False, or the attribute is missing
\* (AttributeError).
PackFlags == {"True", "False", "missing"}

IdlePack ==
    [pc |-> "idle", sourceSubFolder |-> "",
     names |-> <<>>,       \* what walk_packages has still to yield
     sourceList |-> <<>>,
     failed |-> FALSE,     \* a load of the call raised
     ret |-> PyNone]

\* pack_sources(sourceSubFolder) is called (lines 78-84); a folder that does
\* not exist yields no module.
PackSourcesCall(sourceSubFolder) ==
    /\ pack.pc = "idle"
    /\ pack' = [pack EXCEPT !.pc = "loop",
                            !.sourceSubFolder = sourceSubFolder,
                            !.names = FolderEntries(sourceSubFolder)]
    /\ UNCHANGED <<envVars, src, loads, lqueue>>

\* One turn of the loop (lines 82-89): a package is skipped; the module is
\* loaded, in the caller's thread, and its name kept when pack_capable is true.
\* An exception of the load or of the attribute read leaves the loop.
PackNext ==
    /\ pack.pc = "loop"
    /\ pack.names # <<>>
    /\ LET module_name == Head(pack.names)
       IN IF is_pkg(module_name)
          THEN pack' = [pack EXCEPT !.names = Tail(@)]
          ELSE IF module_name \in loadFails
          THEN pack' = [pack EXCEPT !.pc = "except", !.failed = TRUE]
          ELSE IF packFlag[module_name] = "missing"
          THEN pack' = [pack EXCEPT !.pc = "except"]
          ELSE pack' = [pack EXCEPT !.names = Tail(@),
                                    !.sourceList = IF packFlag[module_name] = "True"
                                                   THEN Append(@, module_name) ELSE @]
    /\ UNCHANGED <<envVars, src, loads, lqueue>>

\* return sourceList (line 90)
PackReturn ==
    /\ pack.pc = "loop"
    /\ pack.names = <<>>
    /\ pack' = [pack EXCEPT !.pc = "returned", !.ret = PyList(pack.sourceList)]
    /\ UNCHANGED <<envVars, src, loads, lqueue>>

\* except Exception: log_utils.error() (lines 91-94): the function ends without
\* a return statement, so it returns None; the exception of the log call
\* leaves pack_sources.
PackExcept ==
    /\ pack.pc = "except"
    /\ pack' = [pack EXCEPT !.pc = IF LogRaises THEN "raised" ELSE "returned",
                            !.ret = PyNone]
    /\ UNCHANGED <<envVars, src, loads, lqueue>>

\* ------------------------------------------------------------ wizard.py
\* The longest archive the build server hands out, in members.
MaxMembers == 2

\* str.startswith and str.endswith.
StartsWith(s, p) == Len(s) >= Len(p) /\ SubSeq(s, 1, Len(p)) = p
EndsWith(s, p) == Len(s) >= Len(p) /\ SubSeq(s, Len(s) - Len(p) + 1, Len(s)) = p

\* fnmatch.fnmatch(name, pat) for a pattern with one "*": the star matches any
\* run of characters, "/" included (on POSIX, where the case of letters counts).
fnmatch(name, pat) ==
    LET star == CHOOSE i \in 1..Len(pat) : SubSeq(pat, i, i) = "*"
        pre == SubSeq(pat, 1, star - 1)
        suf == SubSeq(pat, star + 1, Len(pat))
    IN /\ Len(name) >= Len(pre) + Len(suf)
       /\ StartsWith(name, pre)
       /\ EndsWith(name, suf)

\* The parts of a path between its slashes.
Components(s) ==
    LET f[i \in 0..Len(s)] ==
          IF i = 0 THEN <<"">>
          ELSE LET sofar == f[i - 1]
               IN IF SubSeq(s, i, i) = "/" THEN Append(sofar, "")
                  ELSE [sofar EXCEPT ![Len(sofar)] = @ \o SubSeq(s, i, i)]
    IN f[Len(s)]

\* What the file system makes of the parts of a path under kodi_home: an empty
\* part and "." stay where they are, ".." goes up.
RECURSIVE Resolved(_)
Resolved(parts) ==
    IF parts = <<>> THEN <<>>
    ELSE LET init == Resolved(SubSeq(parts, 1, Len(parts) - 1))
             last == parts[Len(parts)]
         IN IF last \in {"", "."} THEN init
            ELSE IF last = ".."
                 THEN IF init = <<>> THEN <<>> ELSE SubSeq(init, 1, Len(init) - 1)
            ELSE Append(init, last)

RECURSIVE Joined(_)
Joined(parts) ==
    IF parts = <<>> THEN ""
    ELSE IF Len(parts) = 1 THEN parts[1]
    ELSE Joined(SubSeq(parts, 1, Len(parts) - 1)) \o "/" \o parts[Len(parts)]

\* target_path = destination / member (line 608), as the path under kodi_home
\* that mkdir and write_bytes reach. pathlib keeps the ".." of a member name
\* and the member names come from zf.namelist() as the archive has them.
TargetPath(member) == Joined(Resolved(Components(member)))

\* The member names an archive may hold, and the archives.
MemberNames ==
    {"addons/", "addons/plugin.x/addon.xml", "addons/skin.y/addon.xml",
     "userdata/guisettings.xml", "addon_data/plugin.x/settings.xml",
     "addons/../userdata/guisettings.xml"}
Archives == SeqsUpTo(MemberNames, MaxMembers)

\* The files the user may have before the update.
UserFiles ==
    {"addons/plugin.x/addon.xml", "userdata/guisettings.xml",
     "userdata/Database/Addons33.db", "userdata/Database/MyVideos131.db",
     "userdata/addon_data/plugin.x/settings.xml"}
InitialHomes == {[p \in S |-> "user"] : S \in SUBSET UserFiles}

IdleUpdate ==
    [pc |-> "idle",
     archive |-> <<>>,    \* the members of the archive behind BUILD_URL
     members |-> <<>>,    \* the members left by the two filters
     i |-> 0,             \* the members extracted so far
     before |-> <<>>]     \* history: home when update_build was called

\* update_build() with the archive the server holds: the user confirms
\* (line 138) or the call returns at once.
UpdateBuildCall(archive, confirmed) ==
    /\ upd.pc = "idle"
    /\ upd' = [upd EXCEPT !.pc = IF confirmed THEN "download" ELSE "returned",
                          !.archive = archive,
                          !.before = home]
    /\ UNCHANGED home

\* include_patterns and exclude_patterns of the call on lines 163-169, and the
\* two filters of _extract_archive (lines 587-597).
include_patterns == <<"addons/*">>
exclude_patterns == <<"addon_data/*", "userdata/*">>
Filtered(members) ==
    SelectSeq(SelectSeq(members,
                        LAMBDA m : \E k \in DOMAIN include_patterns :
                                       fnmatch(m, include_patterns[k])),
              LAMBDA m : ~\E k \in DOMAIN exclude_patterns :
                              fnmatch(m, exclude_patterns[k]))

\* _download_build (lines 151-156): with no archive, or when the user cancelled,
\* RuntimeError goes to the handler of lines 187-190, which reports and ends
\* the call. Otherwise _verify_checksum runs and its answer is dropped
\* (line 159), and _extract_archive opens the archive and filters its names;
\* an archive zipfile cannot open raises to the same handler. The archive is
\* downloaded to special://temp, outside of home.
DownloadBuild(ok) ==
    /\ upd.pc = "download"
    /\ upd' = IF ok
              THEN [upd EXCEPT !.pc = "extract", !.members = Filtered(upd.archive)]
              ELSE [upd EXCEPT !.pc = "failed"]
    /\ UNCHANGED home

\* One turn of the loop of lines 601-615: a name that ends in "/" is made a
\* directory, any other is written with the bytes of the member. An OSError
\* (a full disk, a file where a directory is needed) leaves the loop for the
\* handler with the earlier members extracted.
ExtractMember(ok) ==
    /\ upd.pc = "extract"
    /\ upd.i < Len(upd.members)
    /\ LET member == upd.members[upd.i + 1]
           target_path == TargetPath(member)
       IN IF ok
          THEN /\ home' = (target_path :> IF EndsWith(member, "/") THEN "dir" ELSE "build")
                          @@ home
               /\ upd' = [upd EXCEPT !.i = @ + 1]
          ELSE /\ upd' = [upd EXCEPT !.pc = "failed"]
               /\ UNCHANGED home

\* db_dir.glob("Addons*.db") (lines 651-653): the entries of userdata/Database
\* whose name matches.
AddonsDbFiles ==
    {p \in DOMAIN home :
        LET parts == Components(p)
        IN /\ Len(parts) = 3
           /\ parts[1] = "userdata" /\ parts[2] = "Database"
           /\ fnmatch(parts[3], "Addons*.db")}

\* After the last member: _refresh_addon_database (line 173) unlinks every
\* file the glob gives, but for those whose unlink raises OSError, which is
\* logged (lines 654-658); then the archive is deleted from special://temp and
\* the call ends. An OSError of that last unlink ends it in the handler.
RefreshAddonDatabase(locked, unlinked) ==
    /\ upd.pc = "extract"
    /\ upd.i = Len(upd.members)
    /\ locked \subseteq AddonsDbFiles
    /\ home' = [p \in DOMAIN home \ (AddonsDbFiles \ locked) |-> home[p]]
    /\ upd' = [upd EXCEPT !.pc = IF unlinked THEN "returned" ELSE "failed"]

\* The files of a behaviour that never calls the wizard.
WizQuiet ==
    /\ home = [p \in UserFiles |-> "user"]
    /\ upd = IdleUpdate

\* The settings, the plugins and the logger are the collaborators' state.
SettingOutcomes == {StrReturn("true"), StrReturn("false"), StrRaise}
EnvInit ==
    /\ rootExists \in BOOLEAN
    /\ store \in [{ProviderKey(n) : n \in LeafPlugins} -> SettingOutcomes]
    /\ loadFails \in SUBSET LeafPlugins
    /\ debug \in BOOLEAN
    /\ logOk \in BOOLEAN
    /\ packFlag = [n \in LeafPlugins |-> "True"]
    /\ removed = {}

DiscInit ==
    /\ src = IdleSources
    /\ loads = <<>>
    /\ lqueue = <<>>
    /\ pack = IdlePack

PoolInit ==
    /\ tasks = <<>>
    /\ queue = <<>>
    /\ calls = <<>>
    /\ shutdown = "running"

\* The collaborators of a behaviour that never calls into __init__.py.
EnvQuiet ==
    /\ rootExists = TRUE
    /\ store = [k \in {ProviderKey(n) : n \in LeafPlugins} |-> StrReturn("true")]
    /\ loadFails = {}
    /\ debug = FALSE
    /\ logOk = TRUE
    /\ packFlag = [n \in LeafPlugins |-> "True"]
    /\ removed = {}

NoHistory == hist = [held |-> {}, fin |-> <<>>, found |-> {}]

Init == PoolInit /\ EnvQuiet /\ DiscInit /\ WizQuiet /\ NoHistory
InitSources == PoolInit /\ EnvInit /\ DiscInit /\ WizQuiet /\ NoHistory

\* The steps of the pool and of the calls in progress.
Step ==
    \/ \E c \in CallIds : Submit(c)
    \/ Start
    \/ \E t \in TaskIds : NestedCall(t)
    \/ \E t \in TaskIds : Finish(t)
    \/ \E c \in CallIds : Wait(c)
    \/ \E c \in CallIds : AsCompletedStart(c)
    \/ \E c \in CallIds : AsCompletedNext(c)
    \/ \E c \in CallIds : SubmitConsumer(c)
    \/ \E c \in CallIds : WaitConsumers(c)
    \/ \E c \in CallIds : MultiNext(c)

\* shutdown_executor is called, once, at any time.
ShutdownStep ==
    \/ ShutdownExecutor
    \/ ShutdownReturn

\* The items the threads hand to the three operations.
WaitItems == {PyInt(1), FailItem, NestItem}
MultiItems == {PyTuple(<<PyInt(1)>>), PyTuple(<<FailItem>>), PyTuple(<<PyInt(4)>>)}
PipeItems == {PyInt(1), PyInt(2), PyInt(3)}
AllPipeItems == {PyInt(k) : k \in 1..8}

\* The iterables over S that cause at most r tasks, for every r within the budget.
Iterables(op, S) ==
    [r \in 0..MaxTasks |-> {s \in SeqsUpTo(S, r) : CallTasks(op, s) <= r}]
WaitIterables == Iterables("run_and_wait", WaitItems)
MultiIterables == Iterables("run_and_wait_multi", MultiItems)
PipeIterables == Iterables("run_pipelined", PipeItems)
AllPipeIterables == SeqsUpTo(AllPipeItems, MaxItems)

\* Any threads call the three operations and shutdown_executor concurrently.
Next ==
    \/ \E k \in Threads \ CallIds : \E items \in WaitIterables[Budget] :
          Call(k, "run_and_wait", items) /\ UNCHANGED <<discVars, wizVars, hist>>
    \/ \E k \in Threads \ CallIds : \E items \in MultiIterables[Budget] :
          Call(k, "run_and_wait_multi", items) /\ UNCHANGED <<discVars, wizVars, hist>>
    \/ \E k \in Threads \ CallIds : \E items \in PipeIterables[Budget] :
          Call(k, "run_pipelined", items) /\ UNCHANGED <<discVars, wizVars, hist>>
    \/ Step /\ UNCHANGED <<discVars, wizVars, hist>>
    \/ ShutdownStep /\ UNCHANGED <<discVars, wizVars, hist>>

Spec == Init /\ [][Next]_vars

\* One thread calls one of the three operations while shutdown_executor is
\* called; the tasks queued at that moment are noted.
NextShutdown ==
    \/ \E items \in WaitIterables[Budget] :
          1 \notin CallIds /\ Call(1, "run_and_wait", items)
          /\ UNCHANGED <<discVars, wizVars, hist>>
    \/ \E items \in MultiIterables[Budget] :
          1 \notin CallIds /\ Call(1, "run_and_wait_multi", items)
          /\ UNCHANGED <<discVars, wizVars, hist>>
    \/ \E items \in PipeIterables[Budget] :
          1 \notin CallIds /\ Call(1, "run_pipelined", items)
          /\ UNCHANGED <<discVars, wizVars, hist>>
    \/ Step /\ UNCHANGED <<discVars, wizVars, hist>>
    \/ ShutdownExecutorNoted /\ UNCHANGED <<discVars, wizVars>>
    \/ ShutdownReturn /\ UNCHANGED <<discVars, wizVars, hist>>

SpecShutdown == Init /\ [][NextShutdown]_vars

\* One thread calls run_pipelined with producers of every kind of result.
NextPipe ==
    \/ /\ 1 \notin CallIds
       /\ \E items \in AllPipeIterables :
             Call(1, "run_pipelined", items) /\ UNCHANGED <<discVars, wizVars, hist>>
    \/ Step /\ UNCHANGED <<discVars, wizVars, hist>>

SpecPipe == Init /\ [][NextPipe]_vars

\* The category filters handed to sources().
FolderChoices ==
    {PyNone, PyList(<<>>), PyList(<<"a">>), PyList(<<"b", "zzz">>)}

\* sources() is called once, in any state of its collaborators.
NextSources ==
    \/ \E sf \in FolderChoices, ra \in BOOLEAN : SourcesCall(sf, ra) /\ UNCHANGED <<poolVars, pack, wizVars, hist>>
    \/ LoadSubmit /\ UNCHANGED <<poolVars, pack, wizVars, hist>>
    \/ LoadStart /\ UNCHANGED <<poolVars, pack, wizVars, hist>>
    \/ \E i \in LoadIds : LoadFinishNoted(i) /\ UNCHANGED <<poolVars, pack, wizVars>>
    \/ LoadAsCompletedStartNoted /\ UNCHANGED <<poolVars, pack, wizVars>>
    \/ LoadAsCompletedNext /\ UNCHANGED <<poolVars, pack, wizVars, hist>>
    \/ WithExit /\ UNCHANGED <<poolVars, pack, wizVars, hist>>
    \/ Except /\ UNCHANGED <<poolVars, pack, wizVars, hist>>

SpecSources == InitSources /\ [][NextSources]_vars

\* The values the settings store can hold for a key: the two the settings
\* dialog writes, nothing (getSetting gives the empty string for a key that is
\* absent), a garbled value, and other spellings of "enabled".
AbsentValue == StrReturn("")
GarbledValue == StrReturn("t?ue")
AllSettingOutcomes ==
    SettingOutcomes \cup {AbsentValue, GarbledValue, StrReturn("True"), StrReturn("1")}

\* sources() is called once over every content of the settings store, every
\* plugin being loadable.
InitSettings ==
    /\ PoolInit /\ DiscInit /\ WizQuiet /\ NoHistory
    /\ rootExists = TRUE
    /\ store \in [{ProviderKey(n) : n \in LeafPlugins} -> AllSettingOutcomes]
    /\ loadFails = {}
    /\ debug = FALSE
    /\ logOk \in BOOLEAN
    /\ packFlag = [n \in LeafPlugins |-> "True"]
    /\ removed = {}

SpecSettings == InitSettings /\ [][NextSources]_vars

\* The folders handed to pack_sources(); "torrents" is its default.
PackFolders == {"a", "b", "torrents"}

InitPack ==
    /\ PoolInit /\ DiscInit /\ WizQuiet /\ NoHistory
    /\ rootExists = TRUE
    /\ store = [k \in {ProviderKey(n) : n \in LeafPlugins} |-> StrReturn("false")]
    /\ loadFails \in SUBSET LeafPlugins
    /\ debug = FALSE
    /\ logOk \in BOOLEAN
    /\ packFlag \in [LeafPlugins -> PackFlags]
    /\ removed = {}

\* pack_sources() is called once, in any state of the plugins and the logger.
NextPack ==
    \/ \E f \in PackFolders : PackSourcesCall(f) /\ UNCHANGED <<poolVars, wizVars, hist>>
    \/ PackNext /\ UNCHANGED <<poolVars, wizVars, hist>>
    \/ PackReturn /\ UNCHANGED <<poolVars, wizVars, hist>>
    \/ PackExcept /\ UNCHANGED <<poolVars, wizVars, hist>>

SpecPack == InitPack /\ [][NextPack]_vars

\* One caller hands run_and_wait a function that calls run_and_wait itself, for
\* fewer items than the pool has workers, for as many, and for more.
NestedIterables == SeqsUpTo({NestItem, PyInt(1)}, MaxWorkers + 1)

NextNested ==
    \/ \E items \in NestedIterables : Call(1, "run_and_wait", items) /\ UNCHANGED <<discVars, wizVars, hist>>
    \/ (\E c \in CallIds : Submit(c)) /\ UNCHANGED <<discVars, wizVars, hist>>
    \/ Start /\ UNCHANGED <<discVars, wizVars, hist>>
    \/ (\E t \in TaskIds : NestedCall(t)) /\ UNCHANGED <<discVars, wizVars, hist>>
    \/ (\E t \in TaskIds : Finish(t)) /\ UNCHANGED <<discVars, wizVars, hist>>
    \/ (\E c \in CallIds : Wait(c)) /\ UNCHANGED <<discVars, wizVars, hist>>

SpecNested == Init /\ [][NextNested]_vars

\* A caller keeps the shared pool busy with more tasks than it has workers while
\* sources() is called: the two executors side by side.
BusyItems == [i \in 1..MaxTasks |-> PyInt(1)]

NextBoth ==
    \/ Call(1, "run_and_wait", BusyItems) /\ UNCHANGED <<discVars, wizVars, hist>>
    \/ (\E c \in CallIds : Submit(c)) /\ UNCHANGED <<discVars, wizVars, hist>>
    \/ Start /\ UNCHANGED <<discVars, wizVars, hist>>
    \/ (\E t \in TaskIds : Finish(t)) /\ UNCHANGED <<discVars, wizVars, hist>>
    \/ (\E c \in CallIds : Wait(c)) /\ UNCHANGED <<discVars, wizVars, hist>>
    \/ \E sf \in FolderChoices, ra \in BOOLEAN : SourcesCall(sf, ra) /\ UNCHANGED <<poolVars, pack, wizVars, hist>>
    \/ LoadSubmit /\ UNCHANGED <<poolVars, pack, wizVars, hist>>
    \/ LoadStart /\ UNCHANGED <<poolVars, pack, wizVars, hist>>
    \/ \E i \in LoadIds : LoadFinish(i) /\ UNCHANGED <<poolVars, pack, wizVars, hist>>
    \/ LoadAsCompletedStart /\ UNCHANGED <<poolVars, pack, wizVars, hist>>
    \/ LoadAsCompletedNext /\ UNCHANGED <<poolVars, pack, wizVars, hist>>
    \/ WithExit /\ UNCHANGED <<poolVars, pack, wizVars, hist>>

SpecBoth == Init /\ [][NextBoth]_vars

\* The number of calls of sources() in the specification of discovery cycles.
MaxCycles == 2

\* The caller is done with the result and the next cycle begins: the names
\* sourceDict, modules_to_load, executor and futures are bound afresh by the
\* next call (lines 30, 37, 48, 49); nothing of this call is kept.
NextCycle_KeepsLoaded ==
    /\ src.pc = "returned"
    /\ src.cycle < MaxCycles
    /\ src' = [IdleSources EXCEPT !.cycle = src.cycle + 1,
                                  !.prev = {src.ret[i].e[1] : i \in DOMAIN src.ret},
                                  !.sourceDict = src.ret]
    /\ loads' = <<>>
    /\ lqueue' = <<>>
    /\ UNCHANGED <<envVars, pack>>
NextCycle ==
    /\ src.pc = "returned"
    /\ src.cycle < MaxCycles
    /\ src' = [IdleSources EXCEPT !.cycle = src.cycle + 1,
                                  !.prev = {src.ret[i].e[1] : i \in DOMAIN src.ret}]
    /\ loads' = <<>>
    /\ lqueue' = <<>>
    /\ UNCHANGED <<envVars, pack>>

\* The files of a plugin are deleted from its folder.
PluginRemoved(module_name) ==
    /\ module_name \notin removed
    /\ removed' = removed \cup {module_name}
    /\ UNCHANGED <<rootExists, store, loadFails, debug, logOk, packFlag, src, loads, lqueue, pack>>

\* The settings store belongs to the settings dialog: the user switches a
\* plugin on or off there, outside the engine.
WrittenValues == {"true", "false"}
ExternalWrite(module_name, v) ==
    /\ store[ProviderKey(module_name)] # StrReturn(v)
    /\ store' = [store EXCEPT ![ProviderKey(module_name)] = StrReturn(v)]
    /\ UNCHANGED <<rootExists, loadFails, debug, logOk, packFlag, removed, src, loads, lqueue, pack>>

\* No operation is in progress.
CallOver(c) ==
    IF calls[c].op = "run_and_wait_multi"
    THEN calls[c].pc \in {"exhausted", "iter_raised", "raised"}
    ELSE calls[c].pc \in {"returned", "raised"}
Quiet ==
    /\ \A c \in CallIds : CallOver(c)
    /\ shutdown # "shutting-down"
    /\ src.pc \in {"idle", "returned", "raised"}
    /\ pack.pc \in {"idle", "returned", "raised"}

\* The operations of the engine one after the other, in any order, each at
\* most once per caller, with the user changing settings in between.
NextEngine ==
    \/ /\ Quiet
       /\ \E k \in Threads \ CallIds :
             \/ \E x \in {PyInt(1), NestItem} : Call(k, "run_and_wait", <<x>>)
             \/ Call(k, "run_and_wait_multi", <<PyTuple(<<PyInt(1)>>)>>)
             \/ Call(k, "run_pipelined", <<PyInt(3)>>)
       /\ UNCHANGED <<discVars, wizVars, hist>>
    \/ Step /\ UNCHANGED <<discVars, wizVars, hist>>
    \/ Quiet /\ ShutdownExecutor /\ UNCHANGED <<discVars, wizVars, hist>>
    \/ ShutdownReturn /\ UNCHANGED <<discVars, wizVars, hist>>
    \/ /\ Quiet
       /\ \E ra \in BOOLEAN : SourcesCall(PyNone, ra)
       /\ UNCHANGED <<poolVars, pack, wizVars, hist>>
    \/ LoadSubmit /\ UNCHANGED <<poolVars, pack, wizVars, hist>>
    \/ LoadStart /\ UNCHANGED <<poolVars, pack, wizVars, hist>>
    \/ \E i \in LoadIds : LoadFinish(i) /\ UNCHANGED <<poolVars, pack, wizVars, hist>>
    \/ LoadAsCompletedStart /\ UNCHANGED <<poolVars, pack, wizVars, hist>>
    \/ LoadAsCompletedNext /\ UNCHANGED <<poolVars, pack, wizVars, hist>>
    \/ WithExit /\ UNCHANGED <<poolVars, pack, wizVars, hist>>
    \/ Quiet /\ (\E f \in PackFolders : PackSourcesCall(f)) /\ UNCHANGED <<poolVars, wizVars, hist>>
    \/ PackNext /\ UNCHANGED <<poolVars, wizVars, hist>>
    \/ PackReturn /\ UNCHANGED <<poolVars, wizVars, hist>>
    \/ /\ Quiet
       /\ \E n \in LeafPlugins, v \in WrittenValues : ExternalWrite(n, v)
       /\ UNCHANGED <<poolVars, wizVars, hist>>

SpecEngine == Init /\ [][NextEngine]_vars

\* sources() is called again and again; between two calls plugins are switched
\* on and off and removed.
NextCycles ==
    \/ \E ra \in BOOLEAN : SourcesCall(PyNone, ra) /\ UNCHANGED <<poolVars, pack, wizVars, hist>>
    \/ LoadSubmit /\ UNCHANGED <<poolVars, pack, wizVars, hist>>
    \/ LoadStart /\ UNCHANGED <<poolVars, pack, wizVars, hist>>
    \/ \E i \in LoadIds : LoadFinish(i) /\ UNCHANGED <<poolVars, pack, wizVars, hist>>
    \/ LoadAsCompletedStart /\ UNCHANGED <<poolVars, pack, wizVars, hist>>
    \/ LoadAsCompletedNext /\ UNCHANGED <<poolVars, pack, wizVars, hist>>
    \/ WithExit /\ UNCHANGED <<poolVars, pack, wizVars, hist>>
    \/ NextCycle /\ UNCHANGED <<poolVars, wizVars, hist>>
    \/ /\ src.pc = "idle"
       /\ \E n \in LeafPlugins, v \in WrittenValues : ExternalWrite(n, v)
       /\ UNCHANGED <<poolVars, wizVars, hist>>
    \/ /\ src.pc = "idle"
       /\ \E n \in LeafPlugins : PluginRemoved(n)
       /\ UNCHANGED <<poolVars, wizVars, hist>>

SpecCycles == Init /\ [][NextCycles]_vars

\* update_build() is called once, for every archive and every set of files
\* the user has, and every step succeeds or fails.
InitUpdate ==
    /\ PoolInit /\ EnvQuiet /\ DiscInit /\ NoHistory
    /\ home \in InitialHomes
    /\ upd = IdleUpdate

NextUpdate ==
    \/ /\ upd.pc = "idle"
       /\ \E archive \in Archives, confirmed \in BOOLEAN :
             UpdateBuildCall(archive, confirmed) /\ UNCHANGED <<poolVars, discVars, hist>>
    \/ \E ok \in BOOLEAN : DownloadBuild(ok) /\ UNCHANGED <<poolVars, discVars, hist>>
    \/ \E ok \in BOOLEAN : ExtractMember(ok) /\ UNCHANGED <<poolVars, discVars, hist>>
    \/ /\ upd.pc = "extract"
       /\ \E locked \in SUBSET AddonsDbFiles, unlinked \in BOOLEAN :
             RefreshAddonDatabase(locked, unlinked) /\ UNCHANGED <<poolVars, discVars, hist>>

SpecUpdate == InitUpdate /\ [][NextUpdate]_vars

\* ================================================================ claims
Count(seq, v) == Cardinality({i \in DOMAIN seq : seq[i] = v})
SameBag(s1, s2) ==
    /\ Len(s1) = Len(s2)
    /\ \A v \in Range(s1) \cup Range(s2) : Count(s1, v) = Count(s2, v)

WaitCalls == {c \in CallIds : calls[c].op = "run_and_wait"}
MultiCalls == {c \in CallIds : calls[c].op = "run_and_wait_multi"}
PipeCalls == {c \in CallIds : calls[c].op = "run_pipelined"}
\* The calls that returned while the pool was still accepting work.
ReturnedRunning(c) == calls[c].pc = "returned" /\ shutdown = "running"

\* The arguments of all consumer tasks of call c, and of those whose value came
\* from the result of producer future t, in submission order.
Consumed(c) == [j \in 1..calls[c].ncons |-> tasks[ConsId(c, j)].arg]
ConsumersBy(c, t) == SelectSeq(ConsumerFutures(c), LAMBDA u : tasks[u].by = t)
ConsumedBy(c, t) == [j \in DOMAIN ConsumersBy(c, t) |-> tasks[ConsumersBy(c, t)[j]].arg]

\* C1: at most MaxWorkers tasks execute on tp at any time, whoever submits:
\* several callers, tasks that submit from inside the pool, consumer tasks
\* submitted while producers run.
C1_AtMostCapacityRunning == Cardinality(Running) <= MaxWorkers

\* The pool is full, work is queued, and a task running on the pool has
\* submitted to the pool and waits for it.
C1_Witness ==
    /\ Cardinality(Running) = MaxWorkers
    /\ queue # <<>>
    /\ \E t \in Running : t \in CallIds /\ calls[t].nfut > 0 /\ calls[t].pc = "wait"

\* The values a producer result forwards: none when it is falsy (None, 0, the
\* empty str, list or tuple), the elements of a non-empty list, and otherwise
\* the value itself, a tuple included.
Forwarded(v) ==
    CASE v.t = "NoneType" -> <<>>
      [] v.t = "int" -> IF v.n = 0 THEN <<>> ELSE <<v>>
      [] v.t = "list" -> v.e
      [] OTHER -> IF v.e = <<>> THEN <<>> ELSE <<v>>

\* The values the successful producers of the items hand on, in item order.
ForwardedOf(items) ==
    Concat([i \in DOMAIN items |->
              IF producer_func(items[i]).raises THEN <<>>
              ELSE Forwarded(producer_func(items[i]).val)])

\* C6: when run_pipelined has returned, the consumer tasks it ran are exactly
\* one per value forwarded by a producer that did not raise: none for a failed
\* producer, none lost, none twice (the pool accepting work throughout).
C6_ConsumersAreForwardedValues ==
    \A c \in PipeCalls :
        ReturnedRunning(c) =>
            /\ SameBag(Consumed(c), ForwardedOf(calls[c].items))
            /\ \A u \in Range(ConsumerFutures(c)) :
                  /\ tasks[u].st \in {"done", "failed"}
                  /\ tasks[tasks[u].by].st = "done"

\* A returned call one of whose producers raised and another forwarded two values.
C6_Witness ==
    \E c \in PipeCalls :
        /\ ReturnedRunning(c)
        /\ \E t \in Range(Futures(c)) : tasks[t].st = "failed"
        /\ \E t \in Range(Futures(c)) : tasks[t].st = "done" /\ Len(ConsumedBy(c, t)) = 2

\* C7 as claimed: None or an empty result forwards nothing, a sequence (list or
\* tuple) one consumer task per element, any other value, falsy or not, one
\* consumer task with that value.
ClaimedForward(v) ==
    IF v.t = "NoneType" THEN <<>>
    ELSE IF v.t \in {"list", "tuple"} THEN v.e
    ELSE <<v>>
\* C7, the claim as made: every producer result is forwarded by ClaimedForward.
C7_Original ==
    \A c \in PipeCalls :
        ReturnedRunning(c) =>
            \A t \in Range(Futures(c)) :
                tasks[t].st = "done" => ConsumedBy(c, t) = ClaimedForward(tasks[t].res)

\* C7 as amended: a falsy result (None, 0, the empty str, list or tuple)
\* forwards nothing; a non-empty list one consumer task per element, in order;
\* every other truthy value, a tuple included, one consumer task with the
\* whole value.
C7_ForwardByTruthAndList ==
    \A c \in PipeCalls :
        ReturnedRunning(c) =>
            \A t \in Range(Futures(c)) :
                tasks[t].st = "done" => ConsumedBy(c, t) = Forwarded(tasks[t].res)

\* A returned call with a producer that returned 0 (nothing forwarded) and one
\* that returned a tuple (forwarded whole).
C7_Witness ==
    \E c \in PipeCalls :
        /\ ReturnedRunning(c)
        /\ \E t \in Range(Futures(c)) :
              tasks[t].st = "done" /\ tasks[t].res = PyInt(0) /\ ConsumedBy(c, t) = <<>>
        /\ \E t \in Range(Futures(c)) :
              /\ tasks[t].st = "done" /\ tasks[t].res.t = "tuple"
              /\ ConsumedBy(c, t) = <<tasks[t].res>>

\* C8: a producer that raises takes only its own contribution away: the call
\* does not raise (while the pool accepts work), and when it has returned every
\* producer has finished and every value of every successful producer went to a
\* consumer task that has finished.
C8_ProducerFailureIsolated ==
    \A c \in PipeCalls :
        /\ calls[c].pc = "raised" => shutdown # "running"
        /\ ReturnedRunning(c) =>
              /\ calls[c].nfut = Len(calls[c].items)
              /\ \A t \in Range(Futures(c)) :
                    /\ tasks[t].st \in {"done", "failed"}
                    /\ tasks[t].st = "done" =>
                          /\ ConsumedBy(c, t) = Forwarded(tasks[t].res)
                          /\ \A u \in Range(ConsumersBy(c, t)) : Finished(u)

\* A returned call whose first producer raised and whose second one's value
\* was consumed.
C8_Witness ==
    \E c \in PipeCalls :
        /\ ReturnedRunning(c)
        /\ calls[c].nfut >= 2
        /\ tasks[FutId(c, 1)].st = "failed"
        /\ tasks[FutId(c, 2)].st = "done" /\ ConsumedBy(c, FutId(c, 2)) # <<>>

\* C9: the k-th result the iterator of run_and_wait_multi yields is func
\* applied to the k-th argument tuple, whatever the order of completion.
C9_ResultsInSubmissionOrder ==
    \A c \in MultiCalls :
        \A k \in 1..Len(calls[c].yielded) :
            /\ ~func(calls[c].items[k].e[1]).raises
            /\ calls[c].yielded[k] = func(calls[c].items[k].e[1]).val

\* Two different results were yielded although a later task finished first.
C9_Witness ==
    \E c \in MultiCalls :
        /\ calls[c].overtaken
        /\ Len(calls[c].yielded) = 2
        /\ calls[c].yielded[1] # calls[c].yielded[2]

\* C10: run_and_wait submits one task per item and returns, with None, only
\* when each of them has run to its end, by result or by exception; a task
\* that raises neither makes the call raise nor keeps a sibling from running.
C10_WaitsForEveryTask ==
    \A c \in WaitCalls :
        /\ calls[c].pc = "raised" => shutdown # "running"
        /\ calls[c].pc = "returned" =>
              /\ calls[c].nfut = Len(calls[c].items)
              /\ calls[c].ret = PyNone
              /\ \A i \in 1..calls[c].nfut :
                    /\ tasks[FutId(c, i)].arg = calls[c].items[i]
                    /\ tasks[FutId(c, i)].st \in {"done", "failed"}

\* A returned call with a task that raised and a sibling that ran.
C10_Witness ==
    \E c \in WaitCalls :
        /\ calls[c].pc = "returned"
        /\ \E i, j \in 1..calls[c].nfut :
              tasks[FutId(c, i)].st = "failed" /\ tasks[FutId(c, j)].st = "done"

\* C11: run_pipelined returns only when every producer task and every consumer
\* task it submitted has finished: none of them is queued or running then,
\* whether or not shutdown_executor ran meanwhile.
C11_ReturnsAfterAllTasks ==
    \A c \in PipeCalls :
        calls[c].pc = "returned" =>
            /\ calls[c].nfut = Len(calls[c].items)
            /\ \A t \in Range(Futures(c)) \cup Range(ConsumerFutures(c)) :
                  /\ tasks[t].st \in {"done", "failed"}
                  /\ t \notin Range(queue)

\* A call that returned after its producer and two consumer tasks.
C11_Witness ==
    \E c \in PipeCalls :
        /\ calls[c].pc = "returned"
        /\ calls[c].nfut >= 1
        /\ calls[c].ncons = 2

\* C12: a consumer task that raises does not make run_pipelined raise: the
\* call raises only where a producer submission is rejected, before any
\* consumer exists; it returns None, and by then every consumer task has run to
\* its own end, failed exactly when consumer_func raises on its value.
C12_ConsumerFailureNotPropagated ==
    \A c \in PipeCalls :
        /\ calls[c].pc = "raised" => calls[c].ncons = 0 /\ shutdown # "running"
        /\ calls[c].pc = "returned" =>
              /\ calls[c].ret = PyNone
              /\ \A u \in Range(ConsumerFutures(c)) :
                    tasks[u].st = IF consumer_func(tasks[u].arg).raises
                                  THEN "failed" ELSE "done"

\* A returned call one of whose consumers raised and another ran.
C12_Witness ==
    \E c \in PipeCalls :
        /\ calls[c].pc = "returned"
        /\ \E u, v \in Range(ConsumerFutures(c)) :
              tasks[u].st = "failed" /\ tasks[v].st = "done"

\* C13, the claim as made: once shutdown_executor has begun the pool accepts no
\* task, and a call one of whose submissions was rejected raises to its caller,
\* the consumer submissions of run_pipelined included.
C13_Original ==
    /\ \A t \in TaskIds : tasks[t].at = "running"
    /\ \A c \in CallIds : calls[c].rejected => calls[c].pc = "raised"

\* C14, the claim as made: when shutdown_executor has returned, nothing is
\* queued or running and every accepted task has run: none was cancelled.
C14_Original ==
    shutdown = "terminated" =>
        /\ queue = <<>>
        /\ Running = {}
        /\ \A t \in TaskIds : tasks[t].st \in {"done", "failed"}

\* C14 as amended: when shutdown_executor has returned, nothing is queued or
\* running and every accepted task has finished; a task that was still queued
\* when the shutdown began has run, unless the result iterator of
\* run_and_wait_multi cancelled it; that iterator, after a task of its call
\* raised, is the only thing that cancels a task.
C14_ShutdownWaitsForAccepted ==
    /\ shutdown = "terminated" =>
          /\ queue = <<>>
          /\ Running = {}
          /\ \A t \in TaskIds : Finished(t)
    /\ \A t \in TaskIds :
          tasks[t].st = "cancelled" =>
              /\ tasks[t].stage = "map"
              /\ calls[CallOfTask(t)].pc = "iter_raised"
              /\ \E u \in Range(Futures(CallOfTask(t))) : u < t /\ tasks[u].st = "failed"

\* shutdown_executor has returned; a task that was queued when it was called
\* has run, and a task of a run_and_wait_multi call was cancelled.
C14_Witness ==
    /\ shutdown = "terminated"
    /\ \E t \in hist.held : tasks[t].st = "done"
    /\ \E t \in TaskIds : tasks[t].st = "cancelled"

\* ---- sources()
\* The names of the (name, source) pairs sources() returned.
Returned == {src.ret[i].e[1] : i \in DOMAIN src.ret}
\* The folders a call searches, and their leaf modules.
Searched ==
    IF src.specified_folders \in {PyNone, PyList(<<>>)}
    THEN Range(SourceSubFolders)
    ELSE Range(src.specified_folders.e)
SearchedLeaves ==
    {n \in LeafPlugins : \E f \in Searched : n \in Range(FolderEntries(f))}
OracleTrue(n) == enabledCheck(n) = BoolReturn(TRUE)
\* sources() has returned, the root folder exists and the logger works.
ReturnedNormally == src.pc = "returned" /\ rootExists /\ logOk

\* C2 as claimed: sources(ret_all=False) returns exactly the plugins for which
\* the Oracle returns true.
C2_Original ==
    ReturnedNormally /\ ~src.ret_all =>
        Returned = {n \in SearchedLeaves : OracleTrue(n)}

\* C2 as amended: sources(ret_all=False) returns exactly the plugins for which
\* the Oracle returns true and whose load succeeds; no disabled plugin is
\* loaded or returned.
C2_EnabledAndLoadable ==
    /\ ReturnedNormally /\ ~src.ret_all =>
          Returned = {n \in SearchedLeaves : OracleTrue(n) /\ n \notin loadFails}
    /\ ~src.ret_all =>
          \A i \in LoadIds : store[ProviderKey(loads[i].name)] # StrReturn("false")

\* The example of the specification: a1 enabled, a2 disabled, b1 enabled and
\* failing to load; the call returns a1 alone.
C2_Witness ==
    /\ ReturnedNormally /\ ~src.ret_all /\ src.specified_folders = PyNone
    /\ store[ProviderKey("a1")] = StrReturn("true")
    /\ store[ProviderKey("a2")] = StrReturn("false")
    /\ store[ProviderKey("b1")] = StrReturn("true")
    /\ loadFails = {"b1"}
    /\ Returned = {"a1"}

\* C3: sources(ret_all=True) returns every leaf plugin whose load succeeds,
\* whatever the settings say or do, and does not consult the Oracle.
C3_RetAllIgnoresOracle ==
    ReturnedNormally /\ src.ret_all =>
        /\ Returned = SearchedLeaves \ loadFails
        /\ src.checked = <<>>

\* A ret_all call that returned a disabled plugin and one whose lookup raises.
C3_Witness ==
    /\ ReturnedNormally /\ src.ret_all
    /\ \E n \in Returned : store[ProviderKey(n)] = StrReturn("false")
    /\ \E n \in Returned : store[ProviderKey(n)].raises

\* C4: a plugin whose load raises is not in the output, every other plugin
\* submitted for loading is, and sources() does not raise.
C4_LoadFailureIsolated ==
    logOk =>
        /\ src.pc # "raised"
        /\ src.pc = "returned" /\ rootExists =>
              /\ Len(loads) = Len(src.modules_to_load)
              /\ \A i \in LoadIds :
                    /\ loads[i].name = src.modules_to_load[i]
                    /\ loads[i].name \in Returned <=> loads[i].name \notin loadFails

\* A call, with the load error logged, that returned a plugin although the
\* load of another raised.
C4_Witness ==
    /\ ReturnedNormally /\ debug
    /\ \E i, j \in LoadIds :
          /\ loads[i].name \in loadFails
          /\ loads[j].name \in Returned

\* C5: when the settings lookup raises for a plugin, enabledCheck answers True
\* without raising, and sources(ret_all=False) returns the plugin if its load
\* succeeds.
C5_LookupFailureIsEnabled ==
    logOk =>
        /\ \A k \in DOMAIN src.checked :
              store[ProviderKey(src.checked[k].name)].raises =>
                  src.checked[k].out = BoolReturn(TRUE)
        /\ src.pc = "returned" /\ rootExists /\ ~src.ret_all =>
              \A n \in SearchedLeaves :
                  store[ProviderKey(n)].raises /\ n \notin loadFails => n \in Returned

\* A call that returned a plugin whose lookup raised.
C5_Witness ==
    /\ ReturnedNormally /\ ~src.ret_all
    /\ \E n \in Returned : store[ProviderKey(n)].raises

\* C15, the claim as made: sources() never raises, whatever the enumeration,
\* the settings lookups, the loads and the logger do.
C15_Original == src.pc # "raised"

\* C16: when the root folder does not exist, no plugin is enumerated and no
\* load task is submitted; sources() goes to its handler, which logs the error
\* and returns the empty list.
C16_MissingRootReturnsEmpty ==
    ~rootExists =>
        /\ loads = <<>> /\ lqueue = <<>>
        /\ src.modules_to_load = <<>> /\ src.checked = <<>>
        /\ src.pc \in {"idle", "except", "returned", "raised"}
        /\ src.pc = "returned" => src.logged /\ src.ret = <<>>
        /\ logOk => src.pc # "raised"

\* sources() has returned the empty list from a missing root, the error logged.
C16_Witness ==
    /\ ~rootExists
    /\ src.pc = "returned" /\ src.logged /\ src.ret = <<>>
    /\ src.specified_folders = PyList(<<"a">>)

\* The answer enabledCheck gave for a plugin whose lookup did what r says.
Answers(r) ==
    {src.checked[k].out : k \in {j \in DOMAIN src.checked :
                                   store[ProviderKey(src.checked[j].name)] = r}}

\* C17, the claim as made: for a key that is absent or holds a garbled value,
\* enabledCheck answers True and sources(ret_all=False) returns the plugin.
C17_Original ==
    /\ \A r \in {AbsentValue, GarbledValue} : Answers(r) \subseteq {BoolReturn(TRUE)}
    /\ ReturnedNormally /\ ~src.ret_all =>
          \A n \in SearchedLeaves :
              store[ProviderKey(n)] \in {AbsentValue, GarbledValue} /\ n \notin loadFails
                  => n \in Returned

\* C18: when the lookup succeeds, enabledCheck answers True exactly when the
\* value read is the string "true", and sources(ret_all=False) returns exactly
\* those plugins among the ones whose lookup succeeds.
C18_TrueIffExactlyTrue ==
    /\ \A k \in DOMAIN src.checked :
          LET r == store[ProviderKey(src.checked[k].name)]
          IN ~r.raises => src.checked[k].out = BoolReturn(r.val = "true")
    /\ ReturnedNormally /\ ~src.ret_all =>
          \A n \in SearchedLeaves :
              ~store[ProviderKey(n)].raises /\ n \notin loadFails =>
                  (n \in Returned <=> store[ProviderKey(n)] = StrReturn("true"))

\* A call that returned a plugin set to "true" and left out one set to "True"
\* and one set to "1".
C18_Witness ==
    /\ ReturnedNormally /\ ~src.ret_all
    /\ \E n \in Returned : store[ProviderKey(n)] = StrReturn("true")
    /\ \E n \in SearchedLeaves \ Returned : store[ProviderKey(n)] = StrReturn("True")
    /\ \E n \in SearchedLeaves \ Returned : store[ProviderKey(n)] = StrReturn("1")

\* C19, the claim as made: with a category filter supplied, the empty one
\* included, sources() does not raise and returns only plugins of the supplied
\* categories that exist.
C19_Original ==
    src.specified_folders # PyNone /\ logOk /\ rootExists =>
        /\ src.pc # "raised"
        /\ src.pc = "returned" =>
              \A n \in Returned :
                  \E f \in Range(src.specified_folders.e) : n \in Range(FolderEntries(f))

\* C20, the claim as made: a call of pack_sources in which a load raised does
\* not return; it raises to its caller.
C20_Original == pack.failed => pack.pc \in {"except", "raised"}

\* ---- pack_sources()
\* The names pack_sources(folder) is to return: the leaf modules of the folder
\* whose capability object reports pack_capable true, in walk order.
PackCapableLeaves(folder) ==
    SelectSeq(FolderEntries(folder), LAMBDA n : ~is_pkg(n) /\ packFlag[n] = "True")

\* C21, the claim as made: when every load succeeds, pack_sources(category)
\* does not raise and returns exactly the names of the leaf modules of that
\* category that report pack_capable true, whatever the enablement flags.
C21_Original ==
    Range(FolderEntries(pack.sourceSubFolder)) \cap loadFails = {} =>
        /\ pack.pc # "raised"
        /\ pack.pc = "returned" =>
              pack.ret = PyList(PackCapableLeaves(pack.sourceSubFolder))

\* ---- the logger
\* What sources() is to return whatever the logger and the diagnostics flag do:
\* the searched leaf plugins that are included and whose load succeeds.
Included(n) ==
    \/ src.ret_all
    \/ store[ProviderKey(n)] = StrReturn("true")
    \/ store[ProviderKey(n)].raises
ExpectedSources ==
    IF rootExists
    THEN {n \in SearchedLeaves : Included(n) /\ n \notin loadFails}
    ELSE {}

\* C22, the claim as made: a finished call of sources() has returned, and has
\* returned the plugins that the settings and the load outcomes determine,
\* whether diagnostics are on or off and whether the logging calls return or
\* raise.
C22_Original ==
    src.pc \in {"returned", "raised"} =>
        /\ src.pc = "returned"
        /\ Returned = ExpectedSources

\* ---- the executor of sources()
\* C23: the load tasks of a sources() call run on the call's own executor: at
\* most LoadWorkers of them at a time, however many plugins are included, and
\* none of them is a task of the shared pool tp, whose tasks are those of its
\* callers alone.
C23_LoadsOnOwnExecutor ==
    /\ Cardinality(LoadRunning) <= LoadWorkers
    /\ Cardinality(TaskIds) <= Len(BusyItems)
    /\ \A t \in TaskIds : tasks[t].stage = "plain" /\ tasks[t].arg \in Range(BusyItems)
    /\ \A i \in LoadIds : loads[i].name \in LeafPlugins

\* Every worker of the shared pool is busy with its caller's tasks, more are
\* queued there, and the loads run at the same time on every worker of their
\* own executor with another load queued.
C23_Witness ==
    /\ Cardinality(Running) = MaxWorkers /\ queue # <<>>
    /\ Cardinality(LoadRunning) = LoadWorkers /\ lqueue # <<>>

\* ---- the settings store
\* C24: no step of the engine changes the settings store: every step that
\* changes it is a write of the settings dialog, so each flag keeps the value
\* the store last gave it.
C24_EngineNeverWritesStore ==
    [][\/ store' = store
       \/ \E n \in LeafPlugins, v \in WrittenValues : ExternalWrite(n, v)]_vars

\* The user has switched a2 off; then sources() asked enabledCheck and returned
\* without a2, pack_sources returned, two pool operations ran and
\* shutdown_executor returned; a2 is still off.
C24_Witness ==
    /\ store[ProviderKey("a2")] = StrReturn("false")
    /\ src.pc = "returned" /\ src.checked # <<>> /\ "a2" \notin Returned /\ "a1" \in Returned
    /\ pack.pc = "returned"
    /\ CallIds = Threads /\ \A c \in CallIds : CallOver(c)
    /\ shutdown = "terminated"

\* ---- discovery cycles
\* C25: whatever the calls before it returned, a call of sources() returns
\* exactly the plugins that are installed and included when it is made, each
\* once, from loads it submitted itself.
C25_EachCallFromScratch ==
    /\ Len(loads) <= Len(src.modules_to_load)
    /\ src.pc = "returned" =>
          /\ Returned = {n \in LeafPlugins \ removed :
                            src.ret_all \/ store[ProviderKey(n)] = StrReturn("true")}
          /\ Len(src.ret) = Cardinality(Returned)
          /\ Len(loads) = Len(src.ret)

\* The second call has returned b1 alone: a1 was returned by the first call
\* and switched off since, a2 was returned by it and removed since, b1 was off
\* then and is on now.
C25_Witness ==
    /\ src.cycle = 2 /\ src.pc = "returned" /\ ~src.ret_all
    /\ src.prev = {"a1", "a2"}
    /\ store[ProviderKey("a1")] = StrReturn("false")
    /\ "a2" \in removed /\ store[ProviderKey("a2")] = StrReturn("true")
    /\ Returned = {"b1"}

\* ---- nested submissions
\* Every worker of tp runs a task that waits, in run_and_wait, for a task of
\* its own that is still in the queue.
AllWorkersBlocked ==
    /\ Cardinality(Running) = MaxWorkers
    /\ \A t \in Running :
          /\ t \in CallIds
          /\ calls[t].pc = "wait"
          /\ \E u \in Range(Futures(t)) : tasks[u].st = "queued"

\* C26, the claim as made: with calls made from inside tasks of the pool, by
\* any number of tasks, the pool never reaches a state in which all its
\* workers wait for tasks that are still queued.
C26_Original == ~AllWorkersBlocked

\* ---- the order of the result of sources()
\* The load future that gave the k-th pair of the result.
LoadOf(k) == CHOOSE i \in LoadIds : loads[i].name = src.ret[k].e[1]
\* The result holds each successfully loaded plugin once, as the pair of its
\* name and its source object, and every load of the call has finished.
EachLoadedOnce ==
    /\ \A i \in LoadIds : LoadFinished(i)
    /\ \A k \in DOMAIN src.ret :
          /\ src.ret[k].e[1] \in {loads[i].name : i \in LoadIds}
          /\ src.ret[k] = PyTuple(<<src.ret[k].e[1], Source(src.ret[k].e[1])>>)
          /\ \A l \in DOMAIN src.ret : src.ret[l] = src.ret[k] => l = k
    /\ \A i \in LoadIds :
          loads[i].name \notin loadFails => \E k \in DOMAIN src.ret : LoadOf(k) = i

\* C27, the claim as made: the result of sources() holds each successfully
\* loaded plugin once, in the order in which the loads completed, and every
\* load has finished when it returns.
C27_Original ==
    src.pc = "returned" /\ rootExists =>
        /\ EachLoadedOnce
        /\ \A k, l \in DOMAIN src.ret :
              k < l => hist.fin[LoadOf(k)] < hist.fin[LoadOf(l)]

\* C27 as amended: the order is that in which as_completed yields the futures:
\* the loads that had finished when the collection began come first, in no
\* particular order, the others after them in the order of their completion.
C27_LoadedOnceInYieldOrder ==
    src.pc = "returned" /\ rootExists =>
        /\ EachLoadedOnce
        /\ \A k, l \in DOMAIN src.ret :
              k < l /\ LoadOf(k) \notin hist.found =>
                  /\ LoadOf(l) \notin hist.found
                  /\ hist.fin[LoadOf(k)] < hist.fin[LoadOf(l)]

\* A result of three plugins: two had finished when the collection began and
\* come in the reverse of their completion, the third completed later; the
\* order is not that of submission either.
C27_Witness ==
    /\ src.pc = "returned" /\ Len(src.ret) = 3
    /\ LoadOf(1) \in hist.found /\ LoadOf(2) \in hist.found /\ LoadOf(3) \notin hist.found
    /\ hist.fin[LoadOf(1)] > hist.fin[LoadOf(2)]
    /\ LoadOf(3) < LoadOf(1)

\* The position of future t in the sequence of futures a call has been yielded.
YieldPos(c, t) == CHOOSE k \in DOMAIN calls[c].seen : calls[c].seen[k] = t

IsPrefix(s, t) == Len(s) <= Len(t) /\ s = SubSeq(t, 1, Len(s))

\* C28 as written: every producer is submitted before a result is inspected, a
\* consumer is submitted after its producer completed, and the consumers are
\* submitted in the order in which their producers completed. Stated for the
\* calls whose producers completed in submission order, where that order is
\* the order of the producer futures.
C28_Original ==
    \A c \in PipeCalls :
        /\ calls[c].seen # <<>> => calls[c].nfut = Len(calls[c].items)
        /\ \A j \in 1..calls[c].ncons : tasks[tasks[ConsId(c, j)].by].st = "done"
        /\ ~calls[c].overtaken =>
               \A j, k \in 1..calls[c].ncons :
                   j < k => tasks[ConsId(c, j)].by <= tasks[ConsId(c, k)].by

\* What holds of the submissions at every moment of a run_pipelined call:
\* nothing is inspected before every producer is submitted, each consumer's
\* producer has completed with a result and has been yielded, consumers follow
\* the order in which the producers were yielded, and those of one result
\* follow the order of its list.
PipelineOrder(c) ==
    /\ calls[c].seen # <<>> \/ calls[c].ncons > 0 => calls[c].nfut = Len(calls[c].items)
    /\ \A t \in Range(calls[c].seen) : Finished(t)
    /\ \A j \in 1..calls[c].ncons :
          /\ tasks[tasks[ConsId(c, j)].by].st = "done"
          /\ tasks[ConsId(c, j)].by \in Range(calls[c].seen)
    /\ \A j, k \in 1..calls[c].ncons :
          j < k => YieldPos(c, tasks[ConsId(c, j)].by) <= YieldPos(c, tasks[ConsId(c, k)].by)
    /\ \A t \in Range(calls[c].seen) :
          IsPrefix(ConsumedBy(c, t), Forwarded(tasks[t].res))

\* One step of a run_pipelined call: a producer that finishes after
\* as_completed began joins the end of the waiter's list, and the future
\* yielded is one of those found finished when as_completed began while any is
\* left, and then the first of the waiter's list.
YieldStep(c) ==
    /\ \A t \in Range(Futures(c)) :
          calls[c].ac_on /\ ~Finished(t) /\ tasks'[t].st \in {"done", "failed", "cancelled"}
              => calls'[c].ac_done = Append(calls[c].ac_done, t)
    /\ calls'[c].seen # calls[c].seen =>
          LET t == calls'[c].seen[Len(calls'[c].seen)]
          IN /\ calls'[c].seen = Append(calls[c].seen, t)
             /\ t \notin Range(calls[c].seen)
             /\ Finished(t)
             /\ IF calls[c].ac_first # {}
                THEN t \in calls[c].ac_first
                ELSE calls[c].ac_done # <<>> /\ t = Head(calls[c].ac_done)

\* C28, amended: every producer task is submitted before any result is
\* inspected; a consumer task is submitted only after the producer that
\* returned its value has completed; consumer tasks are submitted in the order
\* in which as_completed yields the producers (within one list result, in list
\* order): the producers already finished when as_completed began first, in no
\* particular order, then the others in completion order.
C28_ConsumersInYieldOrder ==
    /\ [](\A c \in PipeCalls : PipelineOrder(c))
    /\ [][\A c \in PipeCalls : YieldStep(c)]_vars

\* A consumer of a call runs while a producer of the same call has not
\* finished.
C28_Witness ==
    \E c \in PipeCalls :
        /\ \E j \in 1..calls[c].ncons : tasks[ConsId(c, j)].st = "running"
        /\ \E t \in Range(Futures(c)) : tasks[t].st = "running"

\* C29: run_and_wait_multi has submitted one task per argument tuple, in order,
\* when it returns, and its return waits for none of them; a result is
\* delivered only when its task has finished, in submission order; when the
\* task at position i raised, the iteration raises on reaching position i, with
\* the results of all positions before i delivered and none after.
C29_EagerSubmitLazyResults ==
    \A c \in MultiCalls :
        /\ calls[c].pc \in {"returned", "exhausted", "iter_raised"} =>
              /\ calls[c].nfut = Len(calls[c].items)
              /\ \A i \in 1..calls[c].nfut :
                    /\ tasks[FutId(c, i)].stage = "map"
                    /\ tasks[FutId(c, i)].arg = calls[c].items[i]
        /\ Len(calls[c].yielded) <= calls[c].nfut
        /\ \A k \in 1..Len(calls[c].yielded) :
              /\ tasks[FutId(c, k)].st = "done"
              /\ calls[c].yielded[k] = tasks[FutId(c, k)].res
        /\ calls[c].pc = "exhausted" => Len(calls[c].yielded) = calls[c].nfut
        /\ calls[c].pc = "iter_raised" =>
              /\ Len(calls[c].yielded) < calls[c].nfut
              /\ tasks[FutId(c, Len(calls[c].yielded) + 1)].st = "failed"
        /\ calls[c].pc # "iter_raised" =>
              \A t \in Range(Futures(c)) : tasks[t].st # "cancelled"

\* The iteration of a call raised at position 2 after it delivered the result
\* of position 1, and the task of position 3, submitted with the others, was
\* still queued then and never ran.
C29_Witness ==
    \E c \in MultiCalls :
        /\ calls[c].pc = "iter_raised"
        /\ Len(calls[c].yielded) = 1
        /\ calls[c].nfut = 3
        /\ tasks[FutId(c, 3)].st = "cancelled"

\* ---- update_build()
UnderUserData(p) == StartsWith(p, "userdata/") \/ StartsWith(p, "addon_data/")

\* C30: update_build extracts only members of the archive under addons/, and
\* once it was called every file under userdata/ and addon_data/ is as it was
\* before the call: none created, overwritten or deleted, whether the update
\* succeeds or fails.
C30_Original ==
    upd.pc # "idle" =>
        /\ \A k \in 1..upd.i : StartsWith(upd.members[k], "addons/")
        /\ \A p \in DOMAIN home \cup DOMAIN upd.before :
              UnderUserData(p) =>
                  /\ p \in DOMAIN home /\ p \in DOMAIN upd.before
                  /\ home[p] = upd.before[p]

====
